---- MODULE Spec2Model ----
(***************************************************************************)
(* Model of bio-aho-tagger: the span reconciler merge_results (its three   *)
(* copies in bio_aho_tagger.py, utils.py and chem.py), the boundary-aware  *)
(* scanner BioAhoTagger.extract_entities, and the OPSIN batch resolver     *)
(* opsin.batch_process with chem.filter_and_format_chemicals.              *)
(***************************************************************************)
EXTENDS Integers, Sequences, FiniteSets, TLC

VARIABLES
    \* ---- merge_results ----
    variant,        \* which copy of merge_results runs: "tagger", "utils", "chem"
    lists,          \* the *lists argument: a sequence of span lists
    all_matches,    \* the flattened, sorted list
    filtered_matches,
    idx,            \* position of the for loop in all_matches (1-based)
    mpc,            \* "idle" | "start" | "loop" | "done"
    \* ---- BioAhoTagger.extract_entities ----
    dict,           \* the Terms held by self.automaton
    text,           \* the text argument, a sequence of characters
    ntext,          \* the local text after lower() and replace()
    pos,            \* where iter_long resumes in ntext (0-based)
    cur,            \* the raw match of the current loop pass and its outcome
    entities,
    epc,            \* "idle" | "start" | "iter" | "done"
    \* ---- opsin.batch_process, chem.filter_and_format_chemicals ----
    chemical_dict,  \* extract_iupac_names' result: <<names in order, name -> positions>>
    outcome,        \* what nts.parseToSmiles does for each name
    task,           \* each name's call in the executor: "pending" | "running" | "done"
    results,        \* what each finished call returned
    smiles_dict,
    chem_spans,     \* filter_and_format_chemicals' result
    bpc,            \* "idle" | "map" | "returned" | "raised" | "done"
    \* ---- BioAhoTagger.__init__ / load_automaton ----
    file_path,      \* the constructor's argument
    files,          \* what each pickle file holds
    automaton,      \* self.automaton
    lpc             \* "idle" | "new" | "constructed" | "load_error" |
                    \* "extracted" | "attribute_error"

mvars == <<variant, lists, all_matches, filtered_matches, idx, mpc>>

evars == <<dict, text, ntext, pos, cur, entities, epc>>

bvars == <<chemical_dict, outcome, task, results, smiles_dict, chem_spans, bpc>>

lvars == <<file_path, files, automaton, lpc>>

vars == <<mvars, evars, bvars, lvars>>

MergeIdle ==
    /\ variant = "none" /\ lists = <<>> /\ all_matches = <<>>
    /\ filtered_matches = <<>> /\ idx = 0 /\ mpc = "idle"

ExtractIdle ==
    /\ dict = {} /\ text = <<>> /\ ntext = <<>> /\ pos = 0
    /\ cur = <<>> /\ entities = <<>> /\ epc = "idle"

BatchIdle ==
    /\ chemical_dict = <<>> /\ outcome = <<>> /\ task = <<>> /\ results = <<>>
    /\ smiles_dict = <<>> /\ chem_spans = <<>> /\ bpc = "idle"

LoadIdle ==
    /\ file_path = "None" /\ files = <<>> /\ automaton = <<"None">> /\ lpc = "idle"

(***************************************************************************)
(* Bounds of the merge inputs.                                             *)
(***************************************************************************)
MaxPos == 3
MaxSpans == 3

\* The payload of a span names the matcher it comes from: the first list holds
\* the dictionary spans, the second the resolved candidate spans.
Payloads == <<"A", "B">>

\* The extents (start, end) of a span over a text of MaxPos characters,
\* start < end.
Extents == {x \in (0..MaxPos) \X (0..MaxPos) : x[1] < x[2]}

\* A span is the Python tuple (start, end, payload).
SpansOf(xs, p) == [i \in 1..Len(xs) |-> <<xs[i][1], xs[i][2], p>>]

SplitAt(s, k) ==
    <<SpansOf(SubSeq(s, 1, k), Payloads[1]),
      SpansOf(SubSeq(s, k + 1, Len(s)), Payloads[2])>>

Range(s) == {s[i] : i \in 1..Len(s)}

(***************************************************************************)
(* merge_results: flatten, sort, sweep.                                    *)
(***************************************************************************)
RECURSIVE Flatten(_)
Flatten(ls) ==
    IF ls = <<>> THEN <<>> ELSE Head(ls) \o Flatten(Tail(ls))

\* the sort key with the length ascending instead of descending
SortKeyShortestFirst(x) == <<x[1], x[2] - x[1]>>

\* key=lambda x: (x[0], -(x[1] - x[0])), as a pair
SortKey(x) == <<x[1], -(x[2] - x[1])>>

\* tuple comparison of two keys: a <= b
KeyLeq(a, b) == a[1] < b[1] \/ (a[1] = b[1] /\ a[2] <= b[2])

\* x put into the sorted list s behind every element whose key is <= its own
\* (list.sort is stable)
InsertSorted(x, s) ==
    LET k == Cardinality({i \in 1..Len(s) : KeyLeq(SortKey(s[i]), SortKey(x))})
    IN  SubSeq(s, 1, k) \o <<x>> \o SubSeq(s, k + 1, Len(s))

\* the list left in the order of the source lists
SortMatchesSkipped(s) == s

RECURSIVE SortMatches(_)
SortMatches(s) ==
    IF s = <<>> THEN <<>>
    ELSE InsertSorted(s[Len(s)], SortMatches(SubSeq(s, 1, Len(s) - 1)))

\* the containment test without its "true substring" conjunct
SkipTaggerNotStrict(start, end, filtered) ==
    \E i \in 1..Len(filtered) :
        filtered[i][1] <= start /\ end <= filtered[i][2]

\* bio_aho_tagger.merge_results: the match is a true substring of an accepted one
SkipTagger(start, end, filtered) ==
    \E i \in 1..Len(filtered) :
        /\ filtered[i][1] <= start
        /\ end <= filtered[i][2]
        /\ (filtered[i][1] # start \/ filtered[i][2] # end)

\* utils.merge_results: the same test, a second copy of the code
SkipUtils(start, end, filtered) ==
    \E i \in 1..Len(filtered) :
        /\ filtered[i][1] <= start
        /\ end <= filtered[i][2]
        /\ (filtered[i][1] # start \/ filtered[i][2] # end)

\* the containment test of chem.merge_results made strict, as in the other
\* two copies
SkipChemStrict(start, end, filtered) ==
    \E i \in 1..Len(filtered) :
        /\ filtered[i][1] <= start
        /\ end <= filtered[i][2]
        /\ (filtered[i][1] # start \/ filtered[i][2] # end)

\* chem.merge_results: fully contained by any existing match (not strict)
SkipChem(start, end, filtered) ==
    \E i \in 1..Len(filtered) :
        filtered[i][1] <= start /\ end <= filtered[i][2]

RECURSIVE SelectSeq2(_, _, _)
SelectSeq2(s, start, end) ==
    IF s = <<>> THEN <<>>
    ELSE IF ~(start <= Head(s)[1] /\ Head(s)[2] <= end)
         THEN <<Head(s)>> \o SelectSeq2(Tail(s), start, end)
         ELSE SelectSeq2(Tail(s), start, end)

\* chem.merge_results: drop the accepted matches lying inside the new one
EvictChem(start, end, filtered) == SelectSeq2(filtered, start, end)

\* utils.merge_results: the for loop from all_matches[k] on (1-based)
RECURSIVE SweepUtils(_, _, _)
SweepUtils(all, k, filtered) ==
    IF k > Len(all) THEN filtered
    ELSE SweepUtils(all, k + 1,
                    IF SkipUtils(all[k][1], all[k][2], filtered)
                    THEN filtered
                    ELSE Append(filtered, all[k]))

\* utils.merge_results(*ls)
MergeUtils(ls) == SweepUtils(SortMatches(Flatten(ls)), 1, <<>>)

InitMerge ==
    /\ variant \in {"tagger", "utils", "chem"}
    \* two source lists of at most MaxSpans spans altogether, in any order
    /\ \E n \in 0..MaxSpans : \E s \in [1..n -> Extents] : \E k \in 0..n :
            lists = SplitAt(s, k)
    /\ all_matches = <<>>
    /\ filtered_matches = <<>>
    /\ idx = 0
    /\ mpc = "start"
    /\ ExtractIdle
    /\ BatchIdle
    /\ LoadIdle

\* all_matches = [...]; all_matches.sort(...); filtered_matches = []
FlattenAndSort ==
    /\ mpc = "start"
    /\ all_matches' = SortMatches(Flatten(lists))
    /\ filtered_matches' = <<>>
    /\ idx' = 1
    /\ mpc' = "loop"
    /\ UNCHANGED <<variant, lists, evars, bvars, lvars>>

StepTagger ==
    /\ mpc = "loop" /\ variant = "tagger" /\ idx <= Len(all_matches)
    /\ LET m == all_matches[idx] IN
        filtered_matches' =
            IF SkipTagger(m[1], m[2], filtered_matches)
            THEN filtered_matches
            ELSE Append(filtered_matches, m)
    /\ idx' = idx + 1
    /\ UNCHANGED <<variant, lists, all_matches, mpc, evars, bvars, lvars>>

StepUtils ==
    /\ mpc = "loop" /\ variant = "utils" /\ idx <= Len(all_matches)
    /\ LET m == all_matches[idx] IN
        filtered_matches' =
            IF SkipUtils(m[1], m[2], filtered_matches)
            THEN filtered_matches
            ELSE Append(filtered_matches, m)
    /\ idx' = idx + 1
    /\ UNCHANGED <<variant, lists, all_matches, mpc, evars, bvars, lvars>>

StepChem ==
    /\ mpc = "loop" /\ variant = "chem" /\ idx <= Len(all_matches)
    /\ LET m == all_matches[idx] IN
        filtered_matches' =
            IF SkipChem(m[1], m[2], filtered_matches)
            THEN filtered_matches
            ELSE Append(EvictChem(m[1], m[2], filtered_matches), m)
    /\ idx' = idx + 1
    /\ UNCHANGED <<variant, lists, all_matches, mpc, evars, bvars, lvars>>

\* return filtered_matches
ReturnMerge ==
    /\ mpc = "loop" /\ idx > Len(all_matches)
    /\ mpc' = "done"
    /\ UNCHANGED <<variant, lists, all_matches, filtered_matches, idx, evars, bvars, lvars>>

NextMerge ==
    \/ FlattenAndSort
    \/ StepTagger
    \/ StepUtils
    \/ StepChem
    \/ ReturnMerge

SpecMerge == InitMerge /\ [][NextMerge]_vars

(***************************************************************************)
(* BioAhoTagger.extract_entities.                                          *)
(***************************************************************************)
MaxTextLen == 4

\* The right single quotation mark U+2019 and the ASCII apostrophe.
RSQuo == "rsquo"
Apos == "'"

\* Python's None for next_char / prev_char.
None == "None"

\* Characters a text is drawn from: a letter in both cases, a space, a colon,
\* the four markup delimiters and the right single quotation mark.
Alphabet == {"a", "A", " ", ":", ">", "(", "<", ")", RSQuo}

\* Terms as the build scripts store them (lowercased, apostrophe folded).
TermUniverse == {<<"a">>, <<"a", "a">>, <<"a", " ", "a">>, <<"a", Apos>>}

\* The dictionaries tried: each Term alone, and all of them together.
Dictionaries == {{term} : term \in TermUniverse} \cup {TermUniverse}

\* BioAhoTagger.stop_chars
stop_chars == {" ", ",", ".", "\n", "\t", "<", ">", "(", ")", "/"}

\* str.lower() on one character
Lower(c) == IF c = "A" THEN "a" ELSE c

\* str.replace(U+2019, "'") on one character
FoldApostrophe(c) == IF c = RSQuo THEN Apos ELSE c

\* text.lower().replace(U+2019, "'")
NormalizeText(s) == [i \in 1..Len(s) |-> FoldApostrophe(Lower(s[i]))]

\* s[k] with Python's 0-based index
At(s, k) == s[k + 1]

\* The value the build scripts store under a Term: a tuple whose first element
\* is the Term itself.
ValueOf(term) == <<term, "entity">>

\* w is a path of the trie built from D
IsTriePath(D, w) ==
    \E term \in D : Len(w) <= Len(term) /\ SubSeq(term, 1, Len(w)) = w

\* Walk of the trie from the root over s[i..], j the next character to read
\* (0-based); last is the end index of the last Term passed, -1 if none.
RECURSIVE LongestFrom(_, _, _, _, _)
LongestFrom(D, s, i, j, last) ==
    IF j < Len(s) /\ IsTriePath(D, SubSeq(s, i + 1, j + 1))
    THEN LongestFrom(D, s, i, j + 1,
                     IF SubSeq(s, i + 1, j + 1) \in D THEN j ELSE last)
    ELSE last

\* Automaton.iter_long resumed at index p: the next (end_index, value), the
\* longest Term at the first index from p on where a Term starts; <<>> when
\* the iterator is exhausted.
RECURSIVE IterLong(_, _, _)
IterLong(D, s, p) ==
    IF p >= Len(s) THEN <<>>
    ELSE LET e == LongestFrom(D, s, p, p, -1)
         IN  IF e >= 0 THEN <<e, ValueOf(SubSeq(s, p + 1, e + 1))>>
             ELSE IterLong(D, s, p + 1)

\* start_index without the + 1
StartIndexNoPlusOne(end_index, original_value) ==
    end_index - Len(original_value[1])

StartIndex(end_index, original_value) ==
    end_index - Len(original_value[1]) + 1

NextChar(s, end_index) ==
    IF end_index + 1 < Len(s) THEN At(s, end_index + 1) ELSE None

PrevChar(s, start_index) ==
    IF start_index > 0 THEN At(s, start_index - 1) ELSE None

\* the acceptance test without its conditions on prev_char
AcceptsRightOnly(s, start_index, end_index) ==
    LET next_char == NextChar(s, end_index)
    IN  /\ (next_char = None \/ next_char \in stop_chars \/ next_char = ":")
        /\ ~(next_char \in {">", "("} /\ end_index # 0)

\* the if of the loop body
Accepts(s, start_index, end_index) ==
    LET next_char == NextChar(s, end_index)
        prev_char == PrevChar(s, start_index)
        text_length == Len(s)
    IN  /\ (next_char = None \/ next_char \in stop_chars \/ next_char = ":")
        /\ ~(next_char \in {">", "("} /\ end_index # 0)
        /\ (prev_char = None \/ prev_char \in stop_chars)
        /\ ~(prev_char \in {"<", ")"} /\ start_index # text_length - 1)

InitExtract ==
    /\ dict \in Dictionaries
    /\ \E n \in 0..MaxTextLen : text \in [1..n -> Alphabet]
    /\ ntext = <<>>
    /\ pos = 0
    /\ cur = <<>>
    /\ entities = <<>>
    /\ epc = "start"
    /\ MergeIdle
    /\ BatchIdle
    /\ LoadIdle

\* text = text.lower().replace(...); text_length = len(text); entities = []
NormalizeInput ==
    /\ epc = "start"
    /\ ntext' = NormalizeText(text)
    /\ entities' = <<>>
    /\ pos' = 0
    /\ epc' = "iter"
    /\ UNCHANGED <<dict, text, cur, mvars, bvars, lvars>>

\* one pass of the for loop over iter_long
LoopBody ==
    /\ epc = "iter"
    /\ IterLong(dict, ntext, pos) # <<>>
    /\ LET m == IterLong(dict, ntext, pos)
           end_index == m[1]
           original_value == m[2]
           start_index == StartIndex(end_index, original_value)
           ok == Accepts(ntext, start_index, end_index)
       IN  /\ entities' = IF ok
                           THEN Append(entities,
                                       <<start_index, end_index + 1, original_value>>)
                           ELSE entities
           /\ cur' = <<start_index, end_index, ok>>
           /\ pos' = end_index + 1
    /\ UNCHANGED <<dict, text, ntext, epc, mvars, bvars, lvars>>

\* the iterator is exhausted: return entities
ReturnEntities ==
    /\ epc = "iter"
    /\ IterLong(dict, ntext, pos) = <<>>
    /\ epc' = "done"
    /\ UNCHANGED <<dict, text, ntext, pos, cur, entities, mvars, bvars, lvars>>

NextExtract ==
    \/ NormalizeInput
    \/ LoopBody
    \/ ReturnEntities

SpecExtract == InitExtract /\ [][NextExtract]_vars

(***************************************************************************)
(* opsin.batch_process and chem.filter_and_format_chemicals.               *)
(***************************************************************************)
MaxNames == 3

\* batch_process(names, num_threads=8)
num_threads == 8

NameUniverse == <<"n1", "n2", "n3", "n4", "n5">>

Structures == {"S1", "S2"}

\* What the call nts.parseToSmiles(name) can do: raise, return null, return
\* an empty string, return a structure.
Raise == "raise"
Outcomes == {Raise, None, ""} \cup Structures

\* The (start, end) lists a candidate name can come with.
PositionLists == {<< <<0, 2>> >>, << <<0, 2>>, <<3, 5>> >>}

\* A call that ended with an exception instead of a return value.
Raised == <<"exception">>

\* Python truth value of smiles
Truthy(smiles) == smiles # None /\ smiles # ""

\* name_to_structure without its try/except
name_to_structure_uncaught(name, out) ==
    IF out = Raise THEN Raised
    ELSE <<name, IF Truthy(out) THEN out ELSE None>>

\* name_to_structure(name), out being what parseToSmiles does for name
name_to_structure(name, out) ==
    IF out = Raise THEN <<name, None>>
    ELSE <<name, IF Truthy(out) THEN out ELSE None>>

Names == chemical_dict[1]

NameSet == Range(Names)

\* {name: smiles for name, smiles in results if smiles}
SmilesDict(res) ==
    [name \in {n \in DOMAIN res : Truthy(res[n][2])} |-> res[name][2]]

\* the spans filter_and_format_chemicals appends for one name
SpansOfName(chemical_name, positions, chemical_data) ==
    [i \in 1..Len(positions) |->
        <<positions[i][1], positions[i][2],
          <<chemical_name, <<chemical_name, "Chemical", chemical_data[chemical_name]>> >> >>]

RECURSIVE FormatFrom(_, _, _, _)
FormatFrom(names, positions, chemical_data, k) ==
    IF k > Len(names) THEN <<>>
    ELSE (IF names[k] \in DOMAIN chemical_data
          THEN SpansOfName(names[k], positions[names[k]], chemical_data)
          ELSE <<>>)
         \o FormatFrom(names, positions, chemical_data, k + 1)

filter_and_format_chemicals(cd, chemical_data) ==
    FormatFrom(cd[1], cd[2], chemical_data, 1)

InitBatch ==
    /\ \E n \in 0..MaxNames :
          LET ns == [i \in 1..n |-> NameUniverse[i]]
          IN  /\ \E ps \in [Range(ns) -> PositionLists] : chemical_dict = <<ns, ps>>
              /\ outcome \in [Range(ns) -> Outcomes]
              /\ task = [name \in Range(ns) |-> "pending"]
    /\ results = <<>>
    /\ smiles_dict = <<>>
    /\ chem_spans = <<>>
    /\ bpc = "map"
    /\ MergeIdle
    /\ ExtractIdle
    /\ LoadIdle

\* a free worker thread takes the next submitted call
StartTask ==
    /\ bpc = "map"
    /\ Cardinality({n \in NameSet : task[n] = "running"}) < num_threads
    /\ \E k \in 1..Len(Names) :
          /\ task[Names[k]] = "pending"
          /\ \A j \in 1..(k - 1) : task[Names[j]] # "pending"
          /\ task' = [task EXCEPT ![Names[k]] = "running"]
    /\ UNCHANGED <<chemical_dict, outcome, results, smiles_dict, chem_spans, bpc,
                   mvars, evars, lvars>>

\* a running call of name_to_structure ends
FinishTask ==
    /\ bpc = "map"
    /\ \E name \in NameSet :
          /\ task[name] = "running"
          /\ task' = [task EXCEPT ![name] = "done"]
          /\ results' = [n \in DOMAIN results \cup {name} |->
                            IF n = name THEN name_to_structure(name, outcome[name])
                            ELSE results[n]]
    /\ UNCHANGED <<chemical_dict, outcome, smiles_dict, chem_spans, bpc, mvars, evars, lvars>>

\* list(executor.map(...)) has every result (an exception of a call is raised
\* again here); smiles_dict is built and returned
CollectResults ==
    /\ bpc = "map"
    /\ \A name \in NameSet : task[name] = "done"
    /\ IF \E name \in NameSet : results[name] = Raised
       THEN bpc' = "raised" /\ UNCHANGED smiles_dict
       ELSE bpc' = "returned" /\ smiles_dict' = SmilesDict(results)
    /\ UNCHANGED <<chemical_dict, outcome, task, results, chem_spans, mvars, evars, lvars>>

\* filtered = filter_and_format_chemicals(entities, opsin_dict)
FilterAndFormat ==
    /\ bpc = "returned"
    /\ chem_spans' = filter_and_format_chemicals(chemical_dict, smiles_dict)
    /\ bpc' = "done"
    /\ UNCHANGED <<chemical_dict, outcome, task, results, smiles_dict, mvars, evars, lvars>>

NextBatch ==
    \/ StartTask
    \/ FinishTask
    \/ CollectResults
    \/ FilterAndFormat

SpecBatch == InitBatch /\ [][NextBatch]_vars

(***************************************************************************)
(* BioAhoTagger.__init__ and load_automaton.                               *)
(***************************************************************************)
\* built_in_dicts: key -> resource file of the package
built_in_dicts ==
    [k \in {"chembl_smiles", "swissprot_rat_mouse_human"} |->
        IF k = "chembl_smiles" THEN "chembl_smiles.pkl"
        ELSE "swissprot_rat_mouse_human.pkl"]

ExternalFile == "my_path/my_own_automaton.pkl"

\* The pickle files a load can read: the package resources and a file of the
\* caller.
FileNames == {built_in_dicts[k] : k \in DOMAIN built_in_dicts} \cup {ExternalFile}

\* A file is not there, does not unpickle, or holds a pickled automaton.
Missing == <<"missing">>
Corrupt == <<"corrupt">>
Pickled(D) == <<"Automaton", D>>
FileContents == {Missing, Corrupt, Pickled({<<"a">>}), Pickled(TermUniverse)}

\* None as the value of self.automaton
NoAutomaton == <<None>>

\* The arguments tried: none, the empty string, the built-in keys, a path.
FilePaths == {None, ""} \cup DOMAIN built_in_dicts \cup {ExternalFile}

\* with open(...) as file: return pickle.load(file)
ReadPickle(content) ==
    IF content = Missing THEN <<"raise", "FileNotFoundError">>
    ELSE IF content = Corrupt THEN <<"raise", "UnpicklingError">>
    ELSE <<"return", content>>

\* load_automaton(automaton): <<"return", value>> or <<"raise", exception>>
load_automaton(path, fs) ==
    IF path = None \/ path = "" THEN <<"return", NoAutomaton>>
    ELSE IF path \in DOMAIN built_in_dicts THEN ReadPickle(fs[built_in_dicts[path]])
    ELSE ReadPickle(fs[path])

InitLoad ==
    /\ file_path \in FilePaths
    /\ files \in [FileNames -> FileContents]
    /\ automaton = NoAutomaton
    /\ lpc = "new"
    /\ MergeIdle
    /\ ExtractIdle
    /\ BatchIdle

\* BioAhoTagger(file_path): self.automaton = self.load_automaton(file_path)
Construct ==
    /\ lpc = "new"
    /\ LET r == load_automaton(file_path, files)
       IN  IF r[1] = "raise"
           THEN lpc' = "load_error" /\ UNCHANGED automaton
           ELSE lpc' = "constructed" /\ automaton' = r[2]
    /\ UNCHANGED <<file_path, files, mvars, evars, bvars>>

\* extract_entities on the constructed tagger: self.automaton.iter_long(text)
\* raises AttributeError when self.automaton is None
CallExtractEntities ==
    /\ lpc = "constructed"
    /\ lpc' = IF automaton = NoAutomaton THEN "attribute_error" ELSE "extracted"
    /\ UNCHANGED <<file_path, files, automaton, mvars, evars, bvars>>

NextLoad ==
    \/ Construct
    \/ CallExtractEntities

SpecLoad == InitLoad /\ [][NextLoad]_vars

(***************************************************************************)
(* The operations together: one of them is called.                         *)
(***************************************************************************)
Init == InitMerge \/ InitExtract \/ InitBatch \/ InitLoad

Next == NextMerge \/ NextExtract \/ NextBatch \/ NextLoad

Spec == Init /\ [][Next]_vars

(***************************************************************************)
(* Properties of merge_results.                                            *)
(***************************************************************************)
SameExtent(p, q) == p[1] = q[1] /\ p[2] = q[2]

\* p contains q and their extents differ
StrictlyContains(p, q) == p[1] <= q[1] /\ q[2] <= p[2] /\ ~SameExtent(p, q)

Overlap(p, q) == p[1] < q[2] /\ q[1] < p[2]

\* C1 (merge containment law): the list merge_results returns, in each of its
\* three copies, holds no two spans of different extent with one inside the
\* other.
C1_MergeContainment ==
    mpc = "done" =>
        \A p \in Range(filtered_matches) : \A q \in Range(filtered_matches) :
            ~StrictlyContains(p, q)

\* An input with a span strictly inside another has been merged and the
\* result still holds a span.
C1_Witness ==
    /\ mpc = "done"
    /\ \E p \in Range(all_matches) : \E q \in Range(all_matches) :
            StrictlyContains(p, q)
    /\ Len(filtered_matches) >= 1
    /\ Len(filtered_matches) < Len(all_matches)

\* C2 (tie retention, bio_aho_tagger.merge_results and utils.merge_results):
\* of two input spans with the same (start, end) and different payload either
\* both are returned or neither is, and neither only when an accepted span
\* strictly contains them.
C2_TieRetention ==
    (mpc = "done" /\ variant \in {"tagger", "utils"}) =>
        \A p \in Range(all_matches) : \A q \in Range(all_matches) :
            (SameExtent(p, q) /\ p[3] # q[3]) =>
                /\ (p \in Range(filtered_matches)) <=> (q \in Range(filtered_matches))
                /\ p \notin Range(filtered_matches) =>
                        \E f \in Range(filtered_matches) : StrictlyContains(f, p)

\* merge([(s,e,A)], [(s,e,B)]) has returned both spans.
C2_Witness ==
    /\ mpc = "done" /\ variant = "utils"
    /\ Len(lists[1]) = 1 /\ Len(lists[2]) = 1
    /\ SameExtent(lists[1][1], lists[2][1])
    /\ filtered_matches = <<lists[1][1], lists[2][1]>>

\* C3 (tie retention in chem.merge_results), as claimed: two input spans with
\* the same (start, end) and different payload, neither strictly inside
\* another input span, are both returned.
C3_ChemTieRetention ==
    (mpc = "done" /\ variant = "chem") =>
        \A p \in Range(all_matches) : \A q \in Range(all_matches) :
            ( /\ SameExtent(p, q) /\ p[3] # q[3]
              /\ \A r \in Range(all_matches) : ~StrictlyContains(r, p) ) =>
                (p \in Range(filtered_matches) /\ q \in Range(filtered_matches))

\* C4 (non-overlapping output), as claimed: no two returned spans of different
\* extent share a character position.
C4_NonOverlapping ==
    mpc = "done" =>
        \A p \in Range(filtered_matches) : \A q \in Range(filtered_matches) :
            ~SameExtent(p, q) => ~Overlap(p, q)

\* start ascending and, among equal starts, length descending
InOutputOrder(f) ==
    \A i \in 1..Len(f) : \A j \in 1..Len(f) :
        i < j => \/ f[i][1] < f[j][1]
                 \/ (f[i][1] = f[j][1] /\ f[i][2] - f[i][1] >= f[j][2] - f[j][1])

\* C12 (output order): the list merge_results returns, in each copy, is
\* ordered by start ascending and, among spans of equal start, by length
\* descending, whatever the order of the source lists and of their spans.
C12_OutputOrder ==
    mpc = "done" => InOutputOrder(filtered_matches)

\* Source lists that were not in that order have been merged into a list of
\* two spans or more.
C12_Witness ==
    /\ mpc = "done"
    /\ ~InOutputOrder(Flatten(lists))
    /\ Len(filtered_matches) >= 2

ExtentsOf(f) == [i \in 1..Len(f) |-> <<f[i][1], f[i][2]>>]

NoEqualExtents(f) ==
    \A i \in 1..Len(f) : \A j \in 1..Len(f) : i # j => ~SameExtent(f[i], f[j])

\* In chem.merge_results, a pass of the loop that reaches the eviction filter
\* finds no accepted span inside the candidate.
EvictionRemovesNothing ==
    (mpc = "loop" /\ variant = "chem" /\ idx <= Len(all_matches)) =>
        LET m == all_matches[idx]
        IN  ~SkipChem(m[1], m[2], filtered_matches) =>
                EvictChem(m[1], m[2], filtered_matches) = filtered_matches

\* For an input without two spans of the same extent, chem.merge_results
\* returns the extents utils.merge_results returns, in the same order.
ChemAgreesWithUtils ==
    (mpc = "done" /\ variant = "chem" /\ NoEqualExtents(all_matches)) =>
        ExtentsOf(filtered_matches) = ExtentsOf(MergeUtils(lists))

\* A step of chem.merge_results leaves the accepted list as it is or appends
\* to it.
AcceptedOnlyGrows ==
    variant = "chem" =>
        /\ Len(filtered_matches') >= Len(filtered_matches)
        /\ SubSeq(filtered_matches', 1, Len(filtered_matches)) = filtered_matches

\* C13 (the eviction step of chem.merge_results never removes a span): at
\* every pass that reaches the eviction filter no accepted span lies within
\* the candidate, the accepted list only ever grows, and for inputs without
\* two spans of the same extent chem.merge_results and utils.merge_results
\* return the same sequence of extents.
C13_EvictionNeverRemoves ==
    /\ [](EvictionRemovesNothing /\ ChemAgreesWithUtils)
    /\ [][AcceptedOnlyGrows]_vars

\* chem.merge_results has merged an input without equal extents, accepting
\* two spans and skipping a contained one.
C13_Witness ==
    /\ mpc = "done" /\ variant = "chem"
    /\ NoEqualExtents(all_matches)
    /\ Len(filtered_matches) >= 2
    /\ Len(filtered_matches) < Len(all_matches)

(***************************************************************************)
(* Properties of extract_entities.                                         *)
(***************************************************************************)
\* the Term occurs in s at 0-based index i
OccursAt(s, term, i) ==
    i + Len(term) <= Len(s) /\ SubSeq(s, i + 1, i + Len(term)) = term

\* C5 (completeness), as claimed: every occurrence in the normalized text of
\* every Term of the dictionary that passes the right- and the left-boundary
\* test is returned as a span, also when a longer Term matches at the same
\* place.
C5_Completeness ==
    epc = "done" =>
        \A term \in dict : \A i \in 0..Len(ntext) :
            (OccursAt(ntext, term, i) /\ Accepts(ntext, i, i + Len(term) - 1)) =>
                <<i, i + Len(term), ValueOf(term)>> \in Range(entities)

\* The left-boundary rule as the specification words it: no character before
\* the match, or a stop character, unless that character is "<" or ")" and
\* the match does not end at the end of the text.
LeftBoundaryRule(s, start_index, end_index) ==
    LET prev_char == PrevChar(s, start_index)
    IN  /\ (prev_char = None \/ prev_char \in stop_chars)
        /\ ~(prev_char \in {"<", ")"} /\ end_index + 1 # Len(s))

\* The right-boundary rule as the specification words it: no character after
\* the match, a stop character or a colon, unless that character is ">" or
\* "(" and the match does not start at index 0.
RightBoundaryRule(s, start_index, end_index) ==
    LET next_char == NextChar(s, end_index)
    IN  /\ (next_char = None \/ next_char \in stop_chars \/ next_char = ":")
        /\ ~(next_char \in {">", "("} /\ start_index # 0)

\* C6 (right-boundary exception), as claimed: a raw match whose left boundary
\* is satisfied and which is followed by ">" or "(" is accepted exactly when
\* it starts at index 0, whatever its length.
C6_RightException ==
    (cur # <<>> /\ NextChar(ntext, cur[2]) \in {">", "("}
        /\ LeftBoundaryRule(ntext, cur[1], cur[2])) =>
            (cur[3] <=> cur[1] = 0)

\* C7 (left-boundary exception), as claimed: a raw match whose right boundary
\* is satisfied and which is preceded by "<" or ")" is accepted exactly when
\* it ends at the end of the text, whatever its length.
C7_LeftException ==
    (cur # <<>> /\ PrevChar(ntext, cur[1]) \in {"<", ")"}
        /\ RightBoundaryRule(ntext, cur[1], cur[2])) =>
            (cur[3] <=> cur[2] + 1 = Len(ntext))

\* C8 (boundary law): every span (s, e, _) of entities has s = 0 or a stop
\* character at s - 1, and e = len(text) or a stop character or a colon at e;
\* so a Term with a letter right before or after it yields no span.
C8_BoundaryLaw ==
    \A sp \in Range(entities) :
        /\ (sp[1] = 0 \/ At(ntext, sp[1] - 1) \in stop_chars)
        /\ (sp[2] = Len(ntext) \/ At(ntext, sp[2]) \in stop_chars
                \/ At(ntext, sp[2]) = ":")

\* A span with a character on both sides has been returned.
C8_Witness ==
    /\ epc = "done"
    /\ \E sp \in Range(entities) : sp[1] > 0 /\ sp[2] < Len(ntext)

\* C9 (soundness): every span (s, e, payload) of entities has
\* 0 <= s < e <= len(normalized text), and the normalized text from s to e is
\* the Term stored first in payload, a Term of the dictionary.
C9_Soundness ==
    \A sp \in Range(entities) :
        /\ 0 <= sp[1] /\ sp[1] < sp[2] /\ sp[2] <= Len(NormalizeText(text))
        /\ SubSeq(NormalizeText(text), sp[1] + 1, sp[2]) = sp[3][1]
        /\ sp[3][1] \in dict

\* A span has been returned whose characters in the raw text differ from the
\* Term (upper case, or the right single quotation mark).
C9_Witness ==
    /\ epc = "done"
    /\ \E sp \in Range(entities) :
            /\ sp[2] - sp[1] >= 2
            /\ SubSeq(text, sp[1] + 1, sp[2]) # sp[3][1]

(***************************************************************************)
(* Properties of batch_process.                                            *)
(***************************************************************************)
Resolved == {name \in NameSet : outcome[name] \in Structures}

DictionaryAbsent ==
    \/ file_path \in {None, ""}
    \/ (IF file_path \in DOMAIN built_in_dicts
        THEN files[built_in_dicts[file_path]]
        ELSE files[file_path]) \in {Missing, Corrupt}

\* C11 (load failure is an error outcome), as claimed: when the serialized
\* dictionary is absent the construction fails with a load error; no tagger
\* with a null automaton is returned, and a later extract_entities call does
\* not fail.
C11_LoadFailure ==
    /\ (lpc \in {"constructed", "load_error", "extracted", "attribute_error"}
            /\ DictionaryAbsent) => lpc = "load_error"
    /\ lpc \in {"constructed", "extracted"} => automaton # NoAutomaton
    /\ lpc # "attribute_error"

====
